---- MODULE Spec2Model ----
(***************************************************************************)
(* Trade-mirroring execution pipeline: TradeOrderBuilder.copyTrade,        *)
(* placeMarketBuy, placeMarketSell and createSimulateAndPost with          *)
(* simulateTx, over the local holdings ledger; the redemption scheduler    *)
(* that pauses the feed, drains and sweeps; and approveTokensAfterBuy and  *)
(* approveUSDCAllowance with getRpcCandidates and getWorkingProvider.      *)
(*                                                                         *)
(* Quantities (collateral amounts, token quantities, trade sizes) are      *)
(* integers.  A price is given in quarters (2 is 0.5, 4 is 1.0) and the    *)
(* size multiplier in halves (1 is 0.5, 2 is 1.0); the input sets are      *)
(* chosen so that every product and quotient the code computes is exact,   *)
(* in the model as in IEEE doubles.                                        *)
(*                                                                         *)
(* Every await of the code is one interleaving point: an action runs a     *)
(* call from one await to the next.                                        *)
(***************************************************************************)
EXTENDS Integers, Sequences, FiniteSets, TLC

\* Number of invocations (copyTrade, placeMarketBuy, placeMarketSell) that may
\* be in flight at once.
NCalls == 2
\* Number of invocations over the whole run.
MaxInvocations == 2

Calls == 1..NCalls

\* (trade.conditionId, trade.asset)
Keys == {<<"m1", "t1">>, <<"m2", "t2">>}

Sides == {"BUY", "SELL", "sell"}
Sizes == {8, 16}
\* trade.price in quarters; 0 is a missing or zero price
Prices == {0, 2, 4}
Trades == [side : Sides, key : Keys, size : Sizes, price : Prices]
NoTrade == [side |-> "", key |-> <<"", "">>, size |-> 0, price |-> 0]

\* options.sizeMultiplier in halves; options.maxAmount, 0 when not set
Multipliers == {1, 2}
MaxAmounts == {0, 5}
Configs == [sizeMultiplier : Multipliers, maxAmount : MaxAmounts]

\* balance reported by the venue's balance query
Availables == {0, 3, 100}

\* response.status; "" is a missing status
Statuses == {"", "FILLED", "PARTIALLY_FILLED", "MATCHED", "REJECTED", "403", "401", "429"}
\* response.orderID; "" is a missing id
OrderIDs == {"", "ord1"}
\* response.makingAmount / response.takingAmount as the venue sends them:
\* strings, here sequences of characters; <<>> is a missing (or empty) field
AmountStrings == {<<>>, <<"0">>, <<"8">>, <<"2", "0">>, <<"-", "4">>, <<"x">>}
Responses == [present : {TRUE}, orderID : OrderIDs, status : Statuses,
              makingAmount : AmountStrings, takingAmount : AmountStrings]
\* postOrder resolving with no response object
NoResponse == [present |-> FALSE, orderID |-> "", status |-> "",
               makingAmount |-> <<>>, takingAmount |-> <<>>]

ErrBalance == "not enough balance / allowance"
ErrGeo == "Trading restricted in your region, please refer to available regions - geoblock"
ErrNet == "network error"
ErrBuild == "Invalid order amount"
ErrApprove == "No working RPC for token approval"
ErrGeoRewritten == "Order rejected: trading is restricted in your region. Use a VPN or check https://docs.polymarket.com/developers/CLOB/geoblock"
ThrownErrors == {ErrBalance, ErrGeo, ErrNet}
\* reading response.orderID of a missing response
ErrNoResponse == "Cannot read properties of undefined (reading 'orderID')"

\* placeMarketBuy / placeMarketSell: the token and the amount of the order
DirectOps == {"placeMarketBuy", "placeMarketSell"}
DirectTokens == {"t1"}
DirectAmounts == {8, 16}

\* what becomes of the fetch of the simulation endpoint: a 2xx answer,
\* another status, a rejected request, or no answer at all
FetchFates == {"ok", "notOk", "networkError", "hang"}

\* process.env.PRIVATE_KEY: not set (or not a key), or the key of a wallet
PrivateKeys == {"0xkeyA", "0xkeyB"}
PrivateKeyInputs == {""} \cup PrivateKeys

\* console.error as the process installed it: no filter around it
OriginalHandler == <<>>

\* Inputs of the overlapping runs: one representative of each case
ConcurrentTrades == [side : {"BUY", "SELL"}, key : Keys, size : {8}, price : {4}]
ConcurrentConfigs == {[sizeMultiplier |-> 2, maxAmount |-> 0]}
ConcurrentAvailables == {100}
ConcurrentResponses ==
    {[present |-> TRUE, orderID |-> "ord1", status |-> "MATCHED",
      makingAmount |-> <<>>, takingAmount |-> <<>>],
     [present |-> TRUE, orderID |-> "", status |-> "REJECTED",
      makingAmount |-> <<>>, takingAmount |-> <<>>]}
ConcurrentErrors == {ErrNet}
ConcurrentPrivateKeys == {"0xkeyA"}
ConcurrentFetchFates == {"ok", "hang"}

VARIABLES holdings, simulateTxDone, config, calls, started,
          signedOrders,   \* createMarketOrder has signed an order before
          simulated,      \* the orders handed to simulateTx, each by its rank
                          \* of signing: "first" or "later"
          consoleError    \* the global console.error: the filters wrapped
                          \* around the handler of the process, outermost first

VARIABLES redeem   \* the redemption scheduler: its position, the pause flag,
                   \* the ledger keys of the sweep still to do and those done

VARIABLES env,            \* process.env as security/allowance reads it
          approved,       \* on chain: isApprovedForAll(wallet, operator)
          approvals,      \* the approveTokensAfterBuy invocations: the one of
                          \* the copyTrade call c is approvals[c]
          approvalsStarted,   \* invocations that did not come from copyTrade
          firstApproval   \* what the first successfully completed invocation left

VARIABLES allowance,      \* on chain: USDC allowance(wallet, spender)
          setup           \* the approveUSDCAllowance invocation

\* the wallet and the chain
chainVars == <<env, approved, approvals, approvalsStarted, firstApproval>>

\* the allowance setup of the start-up
setupVars == <<allowance, setup>>

\* state outside the order builder and the ledger
outside == <<redeem, chainVars, setupVars>>

vars == <<holdings, simulateTxDone, config, calls, started, signedOrders, simulated,
          consoleError, outside>>

pipeline == <<holdings, simulateTxDone, config, calls, started, signedOrders, simulated,
              consoleError>>

----------------------------------------------------------------------------
\* Pure functions

Min(a, b) == IF a < b THEN a ELSE b

ToUpperCase(s) == IF s = "sell" THEN "SELL" ELSE s

Digits == {"0", "1", "2", "3", "4", "5", "6", "7", "8", "9"}

DigitVal(ch) ==
    CASE ch = "0" -> 0 [] ch = "1" -> 1 [] ch = "2" -> 2 [] ch = "3" -> 3
      [] ch = "4" -> 4 [] ch = "5" -> 5 [] ch = "6" -> 6 [] ch = "7" -> 7
      [] ch = "8" -> 8 [] ch = "9" -> 9

RECURSIVE ParseDigits(_, _)
\* value of the longest prefix of digits of s, read after acc
ParseDigits(s, acc) ==
    IF s = <<>> \/ Head(s) \notin Digits THEN acc
    ELSE ParseDigits(Tail(s), 10 * acc + DigitVal(Head(s)))

\* parseFloat on an integer literal: an optional sign, then digits; text
\* after the digits is ignored; NaN when there is no digit
parseFloat(s) ==
    LET neg  == s # <<>> /\ Head(s) = "-"
        body == IF s # <<>> /\ Head(s) \in {"-", "+"} THEN Tail(s) ELSE s
    IN IF body = <<>> \/ Head(body) \notin Digits
       THEN [nan |-> TRUE, val |-> 0]
       ELSE [nan |-> FALSE,
             val |-> IF neg THEN 0 - ParseDigits(body, 0) ELSE ParseDigits(body, 0)]

Num(n) == [nan |-> FALSE, val |-> n]
\* x > 0 on a double: false for NaN
Positive(x) == ~x.nan /\ x.val > 0

describeOrderFailureRaw(status) == status
describeOrderFailureGeneric(status) ==
    "Order failed (status: " \o (IF status # "" THEN status ELSE "unknown") \o ")"
describeOrderFailure(status) ==
    IF status = "403"
    THEN "Incorrect region - Polymarket blocks trading from this server's location. Use a server in an allowed region or route traffic through a VPN/proxy."
    ELSE IF status = "401" THEN "Authentication failed - check your API credentials."
    ELSE IF status = "429" THEN "Rate limited - too many requests, slow down."
    ELSE "Order failed (status: " \o (IF status # "" THEN status ELSE "unknown") \o ")"

\* errorMessage.includes("not enough balance") || errorMessage.includes("allowance")
IsBalanceError(msg) == msg = ErrBalance
\* msg.includes("Trading restricted") || msg.includes("geoblock")
IsGeoblock(msg) == msg = ErrGeo

----------------------------------------------------------------------------
\* Holdings ledger (utils/holdings)

getHoldings(h, k) == h[k]
addHoldings(h, k, q) == [h EXCEPT ![k] = @ + q]
removeHoldings(h, k, q) == [h EXCEPT ![k] = IF q > @ THEN 0 ELSE @ - q]

\* Order builder (helpers.tradeToMarketOrder), BUY: size * price * multiplier,
\* capped at maxAmount when set; a non-positive amount fails construction
RawAmount(trade, cfg) == (trade.size * trade.price * cfg.sizeMultiplier) \div 8
tradeToMarketOrder(trade, cfg) ==
    LET raw == RawAmount(trade, cfg)
        amt == IF cfg.maxAmount # 0 THEN Min(raw, cfg.maxAmount) ELSE raw
    IN [ok |-> amt > 0, amount |-> amt]

\* Balance guard (utils/balance.validateBuyOrderBalance)
validateBuyOrderBalance(available, required) ==
    [valid |-> available >= required, available |-> available, required |-> required]

----------------------------------------------------------------------------
\* State of one copyTrade invocation: its position (the await it is
\* suspended at), its locals, and a record of what it did.

IdleCall ==
    [pc |-> "idle", trade |-> NoTrade,
     op |-> "",                 \* copyTrade, placeMarketBuy or placeMarketSell
     signed |-> "",             \* this call's order among the signed orders:
                                \* "first" or "later"
     fetchFate |-> "",          \* what becomes of the fetch of simulateTx in flight
     simulation |-> "",         \* "true" / "false": what simulateTx resolved with;
                                \* "threw": preparing the simulation threw
     privateKey |-> "",         \* process.env.PRIVATE_KEY as the simulation block read it
     request |-> <<>>,          \* <<body>>: the body posted to the simulation endpoint
     atStart |-> [k \in Keys |-> 0],   \* the ledger when the call started
     holdingsAmount |-> 0,      \* getHoldings(marketId, tokenId), SELL
     intent |-> 0,              \* tradeToMarketOrder(options).amount, BUY
     checked |-> FALSE,         \* validateBuyOrderBalance has answered
     valid |-> FALSE,           \* balanceCheck.valid
     available |-> 0,           \* balanceCheck.available
     amount |-> 0,              \* marketOrder.amount
     created |-> 0,             \* calls of client.createMarketOrder
     posted |-> 0,              \* calls of client.postOrder
     resolved |-> FALSE,        \* postOrder resolved (did not throw)
     postError |-> "",          \* the message of the error postOrder threw
     origErr |-> <<>>,          \* const origErr = console.error, while in scope
     thrown |-> "",             \* the message of the error createSimulateAndPost
                                \* rejected with
     response |-> <<>>,         \* <<response>>: what createSimulateAndPost resolved
                                \* with, until the caller has taken it
     present |-> FALSE,         \* postOrder resolved with a response object
     status |-> "",             \* response?.status
     respOrderID |-> "",        \* response.orderID
     fill |-> <<>>,             \* response.makingAmount (SELL) / takingAmount (BUY), when read
     wrote |-> 0,               \* ledger mutations made by this call
     qty |-> 0,                 \* quantity passed to addHoldings / removeHoldings
     before |-> 0,              \* ledger entry just before this call's mutation
     after |-> 0,               \* ledger entry just after it
     log |-> "",                \* logger line of the fill accounting
     approval |-> "",           \* "ok" / "threw": how approveTokensAfterBuy ended
     refreshed |-> FALSE,       \* the catch block refreshed the allowance
     result |-> "none",         \* "success" / "failure": the returned success flag;
                                \* "threw": the call ended with an exception
     orderID |-> "",            \* returned orderID
     error |-> ""]              \* returned error

\* security/allowance: the RPC fallback and the approval after a buy

\* the operators ConditionalTokens is approved for: contractConfig.exchange
\* and contractConfig.negRiskExchange
Operators == {"exchange", "negRiskExchange"}

NoApproval == [done |-> FALSE, approved |-> [o \in Operators |-> FALSE], sent |-> {}]


\* CHAIN_ID: Polygon, Amoy, and a chain that is not supported
ChainIds == {137, 80002, 1}
UrlCustom == "https://rpc.example"
PolygonUrls ==
    <<"https://polygon-rpc.com", "https://rpc.ankr.com/polygon",
      "https://polygon.llamarpc.com", "https://rpc-mainnet.matic.quiknode.pro">>
AmoyUrls == <<"https://rpc-amoy.polygon.technology">>
\* RPC_URL: not set, an endpoint of the operator, one of the public endpoints
RpcUrlInputs == {"", UrlCustom, "https://polygon.llamarpc.com"}
\* RPC_TOKEN: not set, or a token
RpcTokenInputs == {"", "tok"}
Envs == [chainId : ChainIds, rpcUrl : RpcUrlInputs, rpcToken : RpcTokenInputs,
         negRisk : BOOLEAN, privateKey : BOOLEAN]
\* environment of the overlapping runs
ConcurrentEnvs ==
    {[chainId |-> 80002, rpcUrl |-> UrlCustom, rpcToken |-> "", negRisk |-> TRUE,
      privateKey |-> TRUE]}

\* the plain environment: Amoy with its public endpoint as the only RPC
\* candidate, the key of the wallet set, NEG_RISK not set
PlainEnvs ==
    {[chainId |-> 80002, rpcUrl |-> "", rpcToken |-> "", negRisk |-> FALSE,
      privateKey |-> TRUE]}
\* environments of the order builder's runs: with RPC_URL, NEG_RISK and
\* PRIVATE_KEY set or not
BuilderEnvs ==
    [chainId : {80002}, rpcUrl : {"", UrlCustom}, rpcToken : {""}, negRisk : BOOLEAN,
     privateKey : BOOLEAN]

\* what becomes of provider.getNetwork(): it resolves, it rejects, or the
\* endpoint never answers
ProbeFates == {"ok", "error", "hang"}

ErrNoPrivateKey == "PRIVATE_KEY not found in environment"
ErrUnsupportedChain == "Unsupported chain ID"
ErrNoRpc == "Could not connect to any RPC endpoint"
ErrInsufficientFunds == "Insufficient POL (MATIC) for gas fees"
ErrTxFailed == "transaction failed"

RECURSIVE Dedup(_, _)
\* the elements of seq not in seen, each at its first occurrence
Dedup(seq, seen) ==
    IF seq = <<>> THEN <<>>
    ELSE IF Head(seq) \in seen THEN Dedup(Tail(seq), seen)
    ELSE <<Head(seq)>> \o Dedup(Tail(seq), seen \cup {Head(seq)})

uniqueUrlsKeepAll(out) == out
\* [...new Set(out)]
uniqueUrls(out) == Dedup(out, {})

\* getRpcCandidates(chainId): ok is false when it throws
getRpcCandidates(chainId, e) ==
    LET own == IF e.rpcUrl # "" THEN <<e.rpcUrl>> ELSE <<>>
    IN IF chainId = 137
       THEN [ok |-> TRUE,
             urls |-> uniqueUrls(
                own \o (IF e.rpcToken # ""
                        THEN <<"https://polygon-mainnet.g.alchemy.com/v2/" \o e.rpcToken>>
                        ELSE <<>>)
                    \o PolygonUrls)]
       ELSE IF chainId = 80002
       THEN [ok |-> TRUE,
             urls |-> uniqueUrls(
                own \o (IF e.rpcToken # ""
                        THEN <<"https://polygon-amoy.g.alchemy.com/v2/" \o e.rpcToken>>
                        ELSE <<>>)
                    \o AmoyUrls)]
       ELSE [ok |-> FALSE, urls |-> <<>>]

\* State of one approveTokensAfterBuy invocation
IdleApproval ==
    [pc |-> "idle",
     candidates |-> <<>>,       \* getRpcCandidates(chainId)
     probes |-> <<>>,           \* the endpoints probed so far, the last one in flight
     fate |-> "",               \* what becomes of the probe in flight
     errors |-> <<>>,           \* errors: <<rpcUrl, message>> per failed probe
     rpcUrl |-> "",             \* the endpoint getWorkingProvider returned
     operator |-> "",           \* the operator being handled
     reads |-> [o \in Operators |-> ""],  \* what isApprovedForAll returned
     sent |-> {},               \* operators a setApprovalForAll transaction was sent for
     later |-> FALSE,           \* started after an invocation had completed
     result |-> "none",         \* "ok": returned; "threw"
     error |-> ""]

ApprovalFree(a) == approvals[a].pc \in {"idle", "done"}

\* throw new Error(msg) out of approveTokensAfterBuy
ApprovalThrew(rec, msg) ==
    [rec EXCEPT !.pc = "done", !.result = "threw", !.error = msg, !.fate = ""]

raceWithoutTimer(fate) == fate
\* Promise.race([provider.getNetwork(), 7000 ms timer]): an endpoint that
\* does not answer ends as a timeout
raceOutcome(fate) == IF fate = "hang" THEN "timeout" ELSE fate

\* getWorkingProvider, one turn of its loop: the probe in flight of r has
\* settled; f is what becomes of the next probe
getWorkingProvider(r, f) ==
    LET out  == raceOutcome(r.fate)
        n    == Len(r.probes)
        errs == Append(r.errors, <<r.probes[n], out>>)
    IN IF out = "ok"
       THEN [r EXCEPT !.pc = "getAddress", !.rpcUrl = r.probes[n], !.fate = ""]
       ELSE IF n < Len(r.candidates)
       THEN [r EXCEPT !.errors = errs, !.probes = Append(@, r.candidates[n + 1]),
                      !.fate = f]
       ELSE ApprovalThrew([r EXCEPT !.errors = errs], ErrNoRpc)

\* approveTokensAfterBuy up to the first probe of getWorkingProvider; f is
\* what becomes of that probe
approveTokensAfterBuyStart(f) ==
    LET r0    == [IdleApproval EXCEPT !.later = firstApproval.done]
        cands == getRpcCandidates(env.chainId, env)
    IN IF ~env.privateKey THEN ApprovalThrew(r0, ErrNoPrivateKey)
       ELSE IF ~cands.ok THEN ApprovalThrew(r0, ErrUnsupportedChain)
       ELSE [r0 EXCEPT !.pc = "getWorkingProvider",
                       !.candidates = cands.urls,
                       !.probes = <<cands.urls[1]>>,
                       !.fate = f]

----------------------------------------------------------------------------
\* The ledger is persisted: a process starts on an empty ledger or on what an
\* earlier run left in it.
InitialHoldings ==
    {[k \in Keys |-> 0], [k \in Keys |-> IF k = <<"m1", "t1">> THEN 8 ELSE 0]}

\* The caller runs one copyTrade at a time in the plain environment, on the
\* full input sets; or one at a time in the other environments, or up to
\* NCalls overlapping ones, on the representative inputs.
Sequential ==
    Cardinality(DOMAIN calls) = 1 /\ redeem.pc = "disabled" /\ env \in PlainEnvs
\* more than two invocations may be in flight at once: they are on one key,
\* and the chain answers every call of their approvals
Crowded == Cardinality(DOMAIN calls) > 2
\* (with one call at a time the trades are on one key; a SELL does not read
\* the price of the observed trade: one price stands for all)
TradeInputs ==
    IF Sequential
    THEN {t \in Trades : t.key = <<"m1", "t1">> /\ (t.side # "BUY" => t.price = 4)}
    ELSE IF Crowded THEN {t \in ConcurrentTrades : t.key = <<"m1", "t1">>}
    ELSE ConcurrentTrades
AvailableInputs == IF Sequential THEN Availables ELSE ConcurrentAvailables
ResponseInputs ==
    IF Sequential
    THEN {r \in Responses :
            /\ r.makingAmount = <<>> \/ r.takingAmount = <<>>
            /\ (r.orderID = "" \/ r.status # "FILLED") =>
                  (r.makingAmount = <<>> /\ r.takingAmount = <<>>)}
            \cup {NoResponse}
    ELSE ConcurrentResponses
\* several order-builder invocations may be in flight at once
Overlapping == Cardinality(DOMAIN calls) > 1
ErrorInputs ==
    IF Sequential THEN ThrownErrors
    ELSE IF Overlapping THEN ConcurrentErrors
    ELSE {ErrNet, ErrBalance}

\* the spenders of the USDC allowances approveUSDCAllowance sets
Spenders == {"conditionalTokens", "exchange", "negRiskAdapter", "negRiskExchange"}

\* approveUSDCAllowance is not followed
NoSetup ==
    /\ allowance = [sp \in Spenders |-> 0]
    /\ setup = [pc |-> "idle"]

\* the redemption scheduler when no redemption interval is configured
RedeemDisabled == [pc |-> "disabled", paused |-> FALSE, todo |-> {}, swept |-> {}]

Init ==
    /\ simulateTxDone = FALSE
    /\ \E n \in {1, NCalls} :
         /\ calls = [c \in 1..n |-> IdleCall]
         /\ approvals = [c \in 1..n |-> IdleApproval]
         /\ \/ /\ n = 1
               /\ env \in PlainEnvs
               /\ approved = [o \in Operators |-> FALSE]
               /\ config \in Configs
               /\ holdings \in InitialHoldings
            \/ /\ n = 1
               /\ env \in BuilderEnvs \ PlainEnvs
               /\ approved \in [Operators -> BOOLEAN]
               /\ config \in ConcurrentConfigs
               /\ holdings \in InitialHoldings
            \/ /\ n > 1
               /\ env \in PlainEnvs
               /\ approved = [o \in Operators |-> FALSE]
               /\ config \in ConcurrentConfigs
               /\ holdings \in {h \in InitialHoldings : h[<<"m1", "t1">>] > 0}
    /\ started = 0
    /\ signedOrders = FALSE
    /\ simulated = <<>>
    /\ consoleError = OriginalHandler
    /\ redeem = RedeemDisabled
    /\ approvalsStarted = 0
    /\ firstApproval = NoApproval
    /\ NoSetup

DirectInputs == IF Overlapping THEN {"placeMarketBuy"} ELSE DirectOps
DirectAmountInputs == IF Sequential THEN DirectAmounts ELSE {8}
\* process.env.PRIVATE_KEY as createSimulateAndPost reads it: the key of the
\* environment
WalletKeyInputs ==
    {pk \in (IF Sequential THEN PrivateKeyInputs
             ELSE IF Overlapping THEN ConcurrentPrivateKeys
             ELSE {"", "0xkeyA"}) : (pk # "") = env.privateKey}
ProbeFateInputs == IF Crowded THEN {"ok"} ELSE ProbeFates
SendOutcomes == {"sent", "insufficientFunds", "error"}
SendOutcomeInputs == IF Crowded THEN {"sent"} ELSE SendOutcomes
FetchFateInputs == IF Overlapping THEN ConcurrentFetchFates ELSE FetchFates

\* the caller uses the first call slot that is free
Free(c) == calls[c].pc \in {"idle", "done"}

IsSell(trade) == ToUpperCase(trade.side) = "SELL"

sellAmountCapped(holdingsAmount, trade, cfg) == Min(holdingsAmount, trade.size)
\* const sellAmount = holdingsAmount
sellAmount(holdingsAmount, trade, cfg) == holdingsAmount

NoHoldingsStrict(holdingsAmount) == holdingsAmount < 0
\* if (holdingsAmount <= 0) return { success: false, ... }
NoHoldings(holdingsAmount) == holdingsAmount <= 0

\* return { success: false, error }
Fail(rec, msg) == [rec EXCEPT !.pc = "done", !.result = "failure", !.error = msg]

CaughtRethrown(rec, msg) ==
    IF IsBalanceError(msg)
    THEN [rec EXCEPT !.pc = "catchDisplayWalletBalance", !.error = msg]
    ELSE [rec EXCEPT !.pc = "done", !.result = "threw", !.error = msg]
\* catch (error) of copyTrade: a balance/allowance error first shows the balance
\* and refreshes the allowance; every error is returned as a failure
Caught(rec, msg) ==
    IF IsBalanceError(msg)
    THEN [rec EXCEPT !.pc = "catchDisplayWalletBalance", !.error = msg]
    ELSE Fail(rec, msg)

\* an error thrown inside createSimulateAndPost reaches the catch of the
\* method that called it: placeMarketBuy and placeMarketSell return it as a
\* failure
Thrown(rec, msg) ==
    IF rec.op = "copyTrade" THEN Caught(rec, msg) ELSE Fail(rec, msg)

\* Trade feed consumer: trades are ignored while copy trading is paused for
\* a redemption
FeedOpen == ~redeem.paused

\* copyTrade up to its first await
Start(c) ==
    /\ c \in DOMAIN calls
    /\ FeedOpen
    /\ Free(c)
    /\ \A d \in DOMAIN calls : d < c => ~Free(d)
    /\ started < MaxInvocations
    /\ started' = started + 1
    /\ \E t \in TradeInputs :
         LET r0 == [IdleCall EXCEPT !.op = "copyTrade", !.trade = t,
                                    !.atStart = holdings]
         IN IF IsSell(t)
            THEN LET h == getHoldings(holdings, t.key)
                     r1 == [r0 EXCEPT !.holdingsAmount = h]
                 IN IF NoHoldings(h)
                    THEN calls' = [calls EXCEPT ![c] =
                                     Fail(r1, "No holdings available to sell")]
                    ELSE calls' = [calls EXCEPT ![c] =
                                     [r1 EXCEPT !.pc = "createMarketOrder",
                                                !.amount = sellAmount(h, t, config),
                                                !.created = 1]]
            ELSE LET mo == tradeToMarketOrder(t, config)
                 IN IF ~mo.ok
                    THEN calls' = [calls EXCEPT ![c] = Caught(r0, ErrBuild)]
                    ELSE calls' = [calls EXCEPT ![c] =
                                     [r0 EXCEPT !.pc = "updateBalanceAllowance",
                                                !.intent = mo.amount,
                                                !.amount = mo.amount]]
    /\ UNCHANGED <<holdings, simulateTxDone, config, signedOrders, simulated, consoleError>>
    /\ UNCHANGED outside

\* await this.client.updateBalanceAllowance(...): a failure is logged only
UpdateBalanceAllowanceReturn(c) ==
    /\ c \in DOMAIN calls
    /\ calls[c].pc = "updateBalanceAllowance"
    /\ \E ok \in BOOLEAN :
         calls' = [calls EXCEPT ![c].pc = "displayWalletBalance"]
    /\ UNCHANGED <<holdings, simulateTxDone, config, started, signedOrders, simulated,
                   consoleError>>
    /\ UNCHANGED outside

\* await displayWalletBalance(this.client)
DisplayWalletBalanceReturn(c) ==
    /\ c \in DOMAIN calls
    /\ calls[c].pc = "displayWalletBalance"
    /\ \E o \in {"ok"} \cup ErrorInputs :
         calls' = [calls EXCEPT ![c] =
                     IF o = "ok" THEN [@ EXCEPT !.pc = "validateBuyOrderBalance"]
                     ELSE Caught(@, o)]
    /\ UNCHANGED <<holdings, simulateTxDone, config, started, signedOrders, simulated,
                   consoleError>>
    /\ UNCHANGED outside

AdjustedAmountNever(amount, balanceCheck) == amount
AdjustedAmountAlways(amount, balanceCheck) == balanceCheck.available
\* marketOrder.amount after the balance check
AdjustedAmount(amount, balanceCheck) ==
    IF ~balanceCheck.valid THEN balanceCheck.available ELSE amount

\* await validateBuyOrderBalance(...), the shrink, and on to
\* createSimulateAndPost's first await
ValidateBuyOrderBalanceReturn(c) ==
    /\ c \in DOMAIN calls
    /\ calls[c].pc = "validateBuyOrderBalance"
    /\ \/ \E e \in ErrorInputs :
            calls' = [calls EXCEPT ![c] = Caught(@, e)]
       \/ \E a \in AvailableInputs :
            LET bc == validateBuyOrderBalance(a, calls[c].amount)
                r1 == [calls[c] EXCEPT !.checked = TRUE, !.valid = bc.valid,
                                       !.available = bc.available]
            IN calls' = [calls EXCEPT ![c] =
                  IF ~bc.valid /\ bc.available <= 0
                  THEN Fail(r1, "Insufficient USDC balance")
                  ELSE [r1 EXCEPT !.pc = "createMarketOrder",
                                  !.amount = AdjustedAmount(@, bc),
                                  !.created = 1]]
    /\ UNCHANGED <<holdings, simulateTxDone, config, started, signedOrders, simulated,
                   consoleError>>
    /\ UNCHANGED outside

\* placeMarketBuy / placeMarketSell up to createSimulateAndPost's first await
StartDirect(c) ==
    /\ c \in DOMAIN calls
    /\ Free(c)
    /\ \A d \in DOMAIN calls : d < c => ~Free(d)
    /\ started < MaxInvocations
    /\ started' = started + 1
    /\ \E o \in DirectInputs, tokenID \in DirectTokens, amount \in DirectAmountInputs :
         calls' = [calls EXCEPT ![c] =
                     [IdleCall EXCEPT
                        !.op = o,
                        !.trade = [side |-> IF o = "placeMarketBuy" THEN "BUY" ELSE "SELL",
                                   key |-> <<"", tokenID>>, size |-> amount, price |-> 0],
                        !.atStart = holdings,
                        !.pc = "createMarketOrder",
                        !.amount = amount,
                        !.created = 1]]
    /\ UNCHANGED <<holdings, simulateTxDone, config, signedOrders, simulated, consoleError>>
    /\ UNCHANGED outside

\* wallet.address: the public address of the wallet of a private key
Address(pk) == IF pk = "0xkeyA" THEN "0xaddrA" ELSE "0xaddrB"

\* the signed order createMarketOrder resolved with
SignedOrder(rec) ==
    [tokenID |-> rec.trade.key[2], side |-> ToUpperCase(rec.trade.side),
     amount |-> rec.amount, signature |-> "signature"]

\* const key = { address: wallet.address, signer: wallet.privateKey }
simulateKey(pk) == [address |-> Address(pk), signer |-> pk]

\* simulateTx: the JSON body of the POST to <simulateUrl>/api/simulate
simulateBody(key, tx) ==
    [key |-> [address |-> key.address, signer |-> key.signer], transaction |-> tx]

\* console.error = (...args) => { ...; origErr.apply(console, args) }: the
\* filter of "[CLOB Client] request error" lines around origErr
wrapper(origErr) == <<"filter">> \o origErr

\* finally { console.error = origErr }
restoredHandler(origErr) == origErr

\* console.error once the call r has gone on from its await: the wrapper around
\* the handler it read when it is about to await postOrder
consoleErrorAt(r) == IF r.pc = "postOrder" THEN wrapper(r.origErr) ELSE consoleError

simulateTxDoneNeverSet(done) == done
\* this.simulateTxDone = true, right after the flag was read false
simulateTxDoneAfterCheck(done) == TRUE

fetchWithoutAbort(fate) == fate
\* fetch(..., { signal: AbortSignal.timeout(10_000) }): a request without an
\* answer is aborted and rejects
fetchOutcome(fate) == IF fate = "hang" THEN "timeout" ELSE fate

\* simulateTx: true on a 2xx answer; false on any other answer and on a
\* rejected or aborted fetch (it never throws)
simulateTx(fetched) == IF fetched = "ok" THEN "true" ELSE "false"

submitAfterSimulationGated(rec, result) ==
    IF result = "true"
    THEN [rec EXCEPT !.simulation = result, !.pc = "postOrder", !.posted = @ + 1]
    ELSE Thrown([rec EXCEPT !.simulation = result], "Tx simulate failed")
\* after the simulation block: its result is logged at most, and the signed
\* order goes to client.postOrder
submitAfterSimulation(rec, result) ==
    [rec EXCEPT !.simulation = result, !.pc = "postOrder", !.posted = @ + 1]

\* await this.client.createMarketOrder(...), then the first-order simulation
\* or straight on to postOrder
CreateMarketOrderReturn(c) ==
    /\ c \in DOMAIN calls
    /\ calls[c].pc = "createMarketOrder"
    /\ \/ \E e \in ErrorInputs :
            /\ calls' = [calls EXCEPT ![c] = Thrown(@, e)]
            /\ UNCHANGED <<simulateTxDone, signedOrders, simulated>>
       \/ \E pk \in WalletKeyInputs, fate \in FetchFateInputs :
            LET n   == IF signedOrders THEN "later" ELSE "first"
                rec == [calls[c] EXCEPT !.signed = n]
                \* new Wallet(process.env.PRIVATE_KEY!) throws without a key
                walletOk == pk # ""
            IN /\ signedOrders' = TRUE
               /\ IF ~simulateTxDone
                  THEN /\ simulateTxDone' = simulateTxDoneAfterCheck(simulateTxDone)
                       /\ IF walletOk
                          THEN /\ simulated' = Append(simulated, n)
                               /\ calls' = [calls EXCEPT ![c] =
                                              [rec EXCEPT !.pc = "simulateTx",
                                                          !.privateKey = pk,
                                                          !.request = <<simulateBody(
                                                              simulateKey(pk),
                                                              SignedOrder(rec))>>,
                                                          !.fetchFate = fate]]
                          ELSE /\ UNCHANGED simulated
                               /\ calls' = [calls EXCEPT ![c] =
                                              submitAfterSimulation(
                                                  [rec EXCEPT !.origErr = consoleError],
                                                  "threw")]
                  ELSE /\ calls' = [calls EXCEPT ![c] =
                                      [rec EXCEPT !.pc = "postOrder", !.posted = @ + 1,
                                                  !.origErr = consoleError]]
                       /\ UNCHANGED <<simulateTxDone, simulated>>
    /\ consoleError' = consoleErrorAt(calls'[c])
    /\ UNCHANGED <<holdings, config, started>>
    /\ UNCHANGED outside

\* await simulateTx(...): resolves true or false, never throws
SimulateTxReturn(c) ==
    /\ c \in DOMAIN calls
    /\ calls[c].pc = "simulateTx"
    /\ LET fetched == fetchOutcome(calls[c].fetchFate)
       IN /\ fetched # "hang"
          /\ calls' = [calls EXCEPT ![c] =
                submitAfterSimulation([@ EXCEPT !.fetchFate = "", !.origErr = consoleError],
                                      simulateTx(fetched))]
    /\ consoleError' = consoleErrorAt(calls'[c])
    /\ UNCHANGED <<holdings, simulateTxDone, config, started, signedOrders, simulated>>
    /\ UNCHANGED outside

FillStatuses == {"FILLED", "PARTIALLY_FILLED", "MATCHED"}

orderFailedStatusRequired(response) ==
    \/ ~response.present
    \/ response.orderID = ""
    \/ response.status \notin FillStatuses
\* sellFailed / buyFailed: !response || !response.orderID ||
\*   (status && status !== "FILLED" && status !== "PARTIALLY_FILLED" && status !== "MATCHED")
orderFailed(response) ==
    \/ ~response.present
    \/ response.orderID = ""
    \/ (response.status # "" /\ response.status \notin FillStatuses)

tokensSoldRequested(response, amount) == Num(amount)
\* response.makingAmount ? parseFloat(response.makingAmount) : sellAmount
tokensSold(response, amount) ==
    IF response.makingAmount # <<>> THEN parseFloat(response.makingAmount)
    ELSE Num(amount)

\* response.takingAmount ? parseFloat(response.takingAmount) : 0
tokensReceived(response) ==
    IF response.takingAmount # <<>> THEN parseFloat(response.takingAmount)
    ELSE Num(0)

estimatedTokensTimesPrice(amount, price) == (amount * price) \div 4
\* marketOrder.amount / (trade.price || 1), the price in quarters
estimatedTokens(amount, price) ==
    IF price # 0 THEN (amount * 4) \div price ELSE amount

\* if (tokensSold > 0) removeHoldings(marketId, tokenId, tokensSold)
SellRemoves(sold) == Positive(sold)

BuyAddsReportedUnguarded(received) == ~received.nan /\ received.val # 0
\* if (tokensReceived > 0) addHoldings(marketId, tokenId, tokensReceived)
BuyAddsReported(received) == Positive(received)

\* the call's record of a ledger mutation from h to h2 on key k
Wrote(rec, h, h2, k, q, line) ==
    [rec EXCEPT !.wrote = @ + 1, !.qty = q, !.before = h[k], !.after = h2[k],
                !.log = line]

SettleSellRemoveFirst(c, rec, response) ==
    LET k  == rec.trade.key
        h2 == removeHoldings(holdings, k, rec.amount)
    IN /\ holdings' = h2
       /\ calls' = [calls EXCEPT ![c] =
            IF orderFailed(response)
            THEN Fail(Wrote(rec, holdings, h2, k, rec.amount, "removed"),
                      describeOrderFailure(response.status))
            ELSE [Wrote(rec, holdings, h2, k, rec.amount, "removed")
                    EXCEPT !.pc = "done", !.result = "success",
                           !.orderID = response.orderID,
                           !.fill = response.makingAmount]]

\* SELL after postOrder resolved: the success check and the ledger removal
SettleSell(c, rec, response) ==
    IF orderFailed(response)
    THEN /\ calls' = [calls EXCEPT ![c] = Fail(rec, describeOrderFailure(response.status))]
         /\ UNCHANGED holdings
    ELSE LET sold == tokensSold(response, rec.amount)
             k    == rec.trade.key
             h2   == removeHoldings(holdings, k, sold.val)
             r1   == [rec EXCEPT !.pc = "done", !.result = "success",
                                 !.orderID = response.orderID,
                                 !.fill = response.makingAmount]
         IN IF SellRemoves(sold)
            THEN /\ holdings' = h2
                 /\ calls' = [calls EXCEPT ![c] =
                                Wrote(r1, holdings, h2, k, sold.val, "removed")]
            ELSE /\ UNCHANGED holdings
                 /\ calls' = [calls EXCEPT ![c] =
                                [r1 EXCEPT !.log = "warn: no tokens were sold"]]

SettleBuyAddFirst(c, rec, response) ==
    LET k  == rec.trade.key
        q  == estimatedTokens(rec.amount, rec.trade.price)
        h2 == addHoldings(holdings, k, q)
        r1 == Wrote(rec, holdings, h2, k, q, "added")
    IN /\ holdings' = h2
       /\ calls' = [calls EXCEPT ![c] =
            IF orderFailed(response)
            THEN Fail(r1, describeOrderFailure(response.status))
            ELSE [r1 EXCEPT !.pc = "approveTokensAfterBuy",
                            !.fill = response.takingAmount]]

\* BUY after postOrder resolved: the success check, the ledger addition, and
\* on to await approveTokensAfterBuy()
SettleBuy(c, rec, response) ==
    IF orderFailed(response)
    THEN /\ calls' = [calls EXCEPT ![c] = Fail(rec, describeOrderFailure(response.status))]
         /\ UNCHANGED holdings
    ELSE LET received == tokensReceived(response)
             est      == estimatedTokens(rec.amount, rec.trade.price)
             k        == rec.trade.key
             r1       == [rec EXCEPT !.pc = "approveTokensAfterBuy",
                                     !.fill = response.takingAmount]
         IN IF BuyAddsReported(received)
            THEN LET h2 == addHoldings(holdings, k, received.val)
                 IN /\ holdings' = h2
                    /\ calls' = [calls EXCEPT ![c] =
                                   Wrote(r1, holdings, h2, k, received.val, "added")]
            ELSE IF est > 0
            THEN LET h2 == addHoldings(holdings, k, est)
                 IN /\ holdings' = h2
                    /\ calls' = [calls EXCEPT ![c] =
                                   Wrote(r1, holdings, h2, k, est,
                                         "warn: using estimated token amount")]
            ELSE /\ UNCHANGED holdings
                 /\ calls' = [calls EXCEPT ![c] =
                                [r1 EXCEPT !.log = "warn: cannot estimate"]]

SettleDirectOnLedger(c, rec, response) ==
    LET k  == CHOOSE j \in Keys : j[2] = rec.trade.key[2]
        h2 == IF IsSell(rec.trade) THEN removeHoldings(holdings, k, rec.amount)
              ELSE addHoldings(holdings, k, rec.amount)
    IN /\ calls' = [calls EXCEPT ![c] =
                      IF ~response.present THEN Fail(rec, ErrNoResponse)
                      ELSE [rec EXCEPT !.pc = "done", !.result = "success",
                                       !.orderID = response.orderID]]
       /\ holdings' = IF response.present THEN h2 ELSE holdings

\* placeMarketBuy / placeMarketSell after postOrder resolved: success with
\* whatever order id the response carries
SettleDirect(c, rec, response) ==
    /\ calls' = [calls EXCEPT ![c] =
                   IF ~response.present THEN Fail(rec, ErrNoResponse)
                   ELSE [rec EXCEPT !.pc = "done", !.result = "success",
                                    !.orderID = response.orderID]]
    /\ UNCHANGED holdings

\* the response as its caller reads it: copyTrade reads status, orderID and
\* makingAmount (SELL) or takingAmount (BUY); placeMarketBuy and
\* placeMarketSell read orderID
Received(rec, o) ==
    IF rec.op # "copyTrade" THEN [o EXCEPT !.makingAmount = <<>>, !.takingAmount = <<>>]
    ELSE IF IsSell(rec.trade) THEN [o EXCEPT !.takingAmount = <<>>]
    ELSE [o EXCEPT !.makingAmount = <<>>]

\* await this.client.postOrder(...) in createSimulateAndPost: a response or no
\* response is returned, an error is rethrown (a geoblock message as the
\* region error); the finally block restores console.error; the caller, which
\* awaits createSimulateAndPost, has not gone on yet
PostOrderReturn(c) ==
    /\ c \in DOMAIN calls
    /\ calls[c].pc = "postOrder"
    /\ \/ \E e \in ErrorInputs :
            calls' = [calls EXCEPT ![c] =
                        [@ EXCEPT !.pc = "createSimulateAndPost",
                                  !.postError = e,
                                  !.thrown = IF IsGeoblock(e) THEN ErrGeoRewritten ELSE e,
                                  !.origErr = <<>>]]
       \/ \E o \in ResponseInputs :
            calls' = [calls EXCEPT ![c] =
                        [@ EXCEPT !.pc = "createSimulateAndPost",
                                  !.resolved = TRUE,
                                  !.response = <<Received(calls[c], o)>>,
                                  !.origErr = <<>>]]
    /\ consoleError' = restoredHandler(calls[c].origErr)
    /\ UNCHANGED <<holdings, simulateTxDone, config, started, signedOrders, simulated>>
    /\ UNCHANGED outside

\* await this.createSimulateAndPost(...) in copyTrade, placeMarketBuy and
\* placeMarketSell: the error goes to the catch block; the response goes
\* through the success check and, in copyTrade, to the ledger
CreateSimulateAndPostReturn(c) ==
    /\ c \in DOMAIN calls
    /\ calls[c].pc = "createSimulateAndPost"
    /\ IF ~calls[c].resolved
       THEN /\ calls' = [calls EXCEPT ![c] = Thrown(@, @.thrown)]
            /\ UNCHANGED holdings
       ELSE LET o   == calls[c].response[1]
                rec == [calls[c] EXCEPT !.response = <<>>, !.present = o.present,
                                        !.status = o.status, !.respOrderID = o.orderID]
            IN IF rec.op # "copyTrade" THEN SettleDirect(c, rec, o)
               ELSE IF IsSell(rec.trade) THEN SettleSell(c, rec, o)
               ELSE SettleBuy(c, rec, o)
    \* a BUY goes on to call approveTokensAfterBuy(), which runs to its first await
    /\ \E f \in ProbeFateInputs :
         approvals' = IF calls'[c].pc = "approveTokensAfterBuy"
                      THEN [approvals EXCEPT ![c] = approveTokensAfterBuyStart(f)]
                      ELSE approvals
    /\ UNCHANGED <<simulateTxDone, config, started, signedOrders, simulated, consoleError>>
    /\ UNCHANGED <<redeem, setupVars, env, approved, approvalsStarted, firstApproval>>

afterApprovalRethrown(rec, outcome) ==
    IF outcome = "threw" THEN Caught([rec EXCEPT !.approval = outcome], ErrApprove)
    ELSE [rec EXCEPT !.approval = outcome, !.pc = "done", !.result = "success",
                     !.orderID = rec.respOrderID]
\* try { await approveTokensAfterBuy() } catch { warn }, then the success return
afterApproval(rec, outcome) ==
    [rec EXCEPT !.approval = outcome, !.pc = "done", !.result = "success",
                !.orderID = rec.respOrderID]

\* await approveTokensAfterBuy() in copyTrade, once approveTokensAfterBuy has
\* returned or thrown: a failure is logged only
ApproveTokensAfterBuyReturn(c) ==
    /\ c \in DOMAIN calls
    /\ calls[c].pc = "approveTokensAfterBuy"
    /\ approvals[c].pc = "done"
    /\ calls' = [calls EXCEPT ![c] =
                   afterApproval(@, IF approvals[c].result = "ok" THEN "ok" ELSE "threw")]
    /\ approvals' = [approvals EXCEPT ![c] = IdleApproval]
    /\ UNCHANGED <<holdings, simulateTxDone, config, started, signedOrders, simulated,
                   consoleError>>
    /\ UNCHANGED <<redeem, setupVars, env, approved, approvalsStarted, firstApproval>>

\* catch: await displayWalletBalance(this.client)
CatchDisplayWalletBalanceReturn(c) ==
    /\ c \in DOMAIN calls
    /\ calls[c].pc = "catchDisplayWalletBalance"
    /\ \E ok \in BOOLEAN :
         calls' = [calls EXCEPT ![c] =
                     IF ok THEN [@ EXCEPT !.pc = "catchUpdateBalanceAllowance"]
                     ELSE Fail(@, @.error)]
    /\ UNCHANGED <<holdings, simulateTxDone, config, started, signedOrders, simulated,
                   consoleError>>
    /\ UNCHANGED outside

afterAllowanceRefreshRetry(rec, ok) ==
    IF ok /\ rec.posted >= 1
    THEN [rec EXCEPT !.refreshed = ok, !.pc = "postOrder", !.posted = @ + 1]
    ELSE Fail([rec EXCEPT !.refreshed = ok], rec.error)
\* after the allowance refresh of the catch block: the error is returned
afterAllowanceRefresh(rec, ok) == Fail([rec EXCEPT !.refreshed = ok], rec.error)

\* catch: await this.client.updateBalanceAllowance(...)
CatchUpdateBalanceAllowanceReturn(c) ==
    /\ c \in DOMAIN calls
    /\ calls[c].pc = "catchUpdateBalanceAllowance"
    /\ \E ok \in BOOLEAN :
         calls' = [calls EXCEPT ![c] = afterAllowanceRefresh(@, ok)]
    /\ UNCHANGED <<holdings, simulateTxDone, config, started, signedOrders, simulated,
                   consoleError>>
    /\ UNCHANGED outside

\* approveTokensAfterBuy, from one await to the next

\* getWorkingProvider: the probe in flight settles; on a success the provider
\* is returned, on a failure the next candidate is probed, and after the last
\* one the error that lists the attempts is thrown
ProbeReturn(a) ==
    /\ a \in DOMAIN approvals
    /\ approvals[a].pc = "getWorkingProvider"
    /\ raceOutcome(approvals[a].fate) # "hang"
    /\ \E f \in ProbeFates :
         approvals' = [approvals EXCEPT ![a] = getWorkingProvider(@, f)]
    /\ UNCHANGED <<pipeline, redeem, setupVars, env, approved, approvalsStarted, firstApproval>>

\* await wallet.getAddress()
GetAddressReturn(a) ==
    /\ a \in DOMAIN approvals
    /\ approvals[a].pc = "getAddress"
    /\ approvals' = [approvals EXCEPT ![a].pc = "getGasPrice"]
    /\ UNCHANGED <<pipeline, redeem, setupVars, env, approved, approvalsStarted, firstApproval>>

\* await provider.getGasPrice(): a failure falls back to a fixed gas price;
\* then isApprovedForAll for the exchange is called
GetGasPriceReturn(a) ==
    /\ a \in DOMAIN approvals
    /\ approvals[a].pc = "getGasPrice"
    /\ \E ok \in BOOLEAN :
         approvals' = [approvals EXCEPT ![a] =
                         [@ EXCEPT !.pc = "isApprovedForAll", !.operator = "exchange"]]
    /\ UNCHANGED <<pipeline, redeem, setupVars, env, approved, approvalsStarted, firstApproval>>

\* after an operator is done: the negRisk exchange when NEG_RISK is "true",
\* else the normal return
NextOperator(rec) ==
    IF rec.operator = "exchange" /\ env.negRisk
    THEN [rec EXCEPT !.pc = "isApprovedForAll", !.operator = "negRiskExchange"]
    ELSE [rec EXCEPT !.pc = "done", !.result = "ok", !.operator = ""]

\* the approval state the first invocation to return normally left
Completed(rec, chain) ==
    IF rec.result = "ok" /\ ~firstApproval.done
    THEN [done |-> TRUE, approved |-> chain, sent |-> rec.sent]
    ELSE firstApproval

needsApprovalAlways(isApproved) == TRUE
\* if (!isApproved)
needsApproval(isApproved) == ~isApproved

\* await ctfContract.isApprovedForAll(address, operator)
IsApprovedForAllReturn(a) ==
    /\ a \in DOMAIN approvals
    /\ approvals[a].pc = "isApprovedForAll"
    /\ \/ /\ ~Crowded
          /\ approvals' = [approvals EXCEPT ![a] = ApprovalThrew(@, ErrNet)]
          /\ UNCHANGED firstApproval
       \/ LET r  == approvals[a]
              is == approved[r.operator]
              r1 == [r EXCEPT !.reads[r.operator] = IF is THEN "true" ELSE "false"]
              r2 == IF needsApproval(is) THEN [r1 EXCEPT !.pc = "setApprovalForAll"]
                    ELSE NextOperator(r1)
          IN /\ approvals' = [approvals EXCEPT ![a] = r2]
             /\ firstApproval' = Completed(r2, approved)
    /\ UNCHANGED <<pipeline, redeem, setupVars, env, approved, approvalsStarted>>

\* await ctfContract.setApprovalForAll(operator, true, gasOptions): the
\* transaction is sent, or the call throws (INSUFFICIENT_FUNDS is rewritten)
SetApprovalForAllReturn(a) ==
    /\ a \in DOMAIN approvals
    /\ approvals[a].pc = "setApprovalForAll"
    /\ \E out \in SendOutcomeInputs :
         approvals' = [approvals EXCEPT ![a] =
            IF out = "sent" THEN [@ EXCEPT !.pc = "wait", !.sent = @ \cup {approvals[a].operator}]
            ELSE IF out = "insufficientFunds" THEN ApprovalThrew(@, ErrInsufficientFunds)
            ELSE ApprovalThrew(@, ErrNet)]
    /\ UNCHANGED <<pipeline, redeem, setupVars, env, approved, approvalsStarted, firstApproval>>

\* await tx.wait(): the transaction is mined and the operator approved, or
\* it failed
WaitReturn(a) ==
    /\ a \in DOMAIN approvals
    /\ approvals[a].pc = "wait"
    /\ \/ /\ ~Crowded
          /\ approvals' = [approvals EXCEPT ![a] = ApprovalThrew(@, ErrTxFailed)]
          /\ UNCHANGED <<approved, firstApproval>>
       \/ LET r     == approvals[a]
              chain == [approved EXCEPT ![r.operator] = TRUE]
              r1    == NextOperator(r)
          IN /\ approved' = chain
             /\ approvals' = [approvals EXCEPT ![a] = r1]
             /\ firstApproval' = Completed(r1, chain)
    /\ UNCHANGED <<pipeline, redeem, setupVars, env, approvalsStarted>>

Next ==
    \E c \in Calls :
        \/ Start(c)
        \/ StartDirect(c)
        \/ UpdateBalanceAllowanceReturn(c)
        \/ DisplayWalletBalanceReturn(c)
        \/ ValidateBuyOrderBalanceReturn(c)
        \/ CreateMarketOrderReturn(c)
        \/ SimulateTxReturn(c)
        \/ PostOrderReturn(c)
        \/ CreateSimulateAndPostReturn(c)
        \/ ApproveTokensAfterBuyReturn(c)
        \/ CatchDisplayWalletBalanceReturn(c)
        \/ CatchUpdateBalanceAllowanceReturn(c)
        \/ ProbeReturn(c)
        \/ GetAddressReturn(c)
        \/ GetGasPriceReturn(c)
        \/ IsApprovedForAllReturn(c)
        \/ SetApprovalForAllReturn(c)
        \/ WaitReturn(c)

Spec == Init /\ [][Next]_vars

----------------------------------------------------------------------------
\* Redemption scheduler (timer tick: pause, drain, sweep, resume) next to the
\* order builder

\* one execution at a time next to the scheduler
InitRedeem ==
    /\ holdings \in InitialHoldings
    /\ simulateTxDone = FALSE
    /\ calls = [c \in {1} |-> IdleCall]
    /\ config \in ConcurrentConfigs
    /\ started = 0
    /\ signedOrders = FALSE
    /\ simulated = <<>>
    /\ consoleError = OriginalHandler
    /\ redeem = [RedeemDisabled EXCEPT !.pc = "idle"]
    /\ env \in PlainEnvs
    /\ approved = [o \in Operators |-> FALSE]
    /\ approvals = [c \in {1} |-> IdleApproval]
    /\ approvalsStarted = 0
    /\ firstApproval = NoApproval
    /\ NoSetup

\* an execution that has started and not returned
InFlight(r) == r.pc \notin {"idle", "done"}

\* the keys with a ledger entry
HeldKeys(h) == {k \in Keys : h[k] > 0}

\* (1) the tick signals pause to the trade feed consumer
RedeemTick ==
    /\ redeem.pc = "idle"
    /\ redeem' = [redeem EXCEPT !.pc = "draining", !.paused = TRUE]
    /\ UNCHANGED <<pipeline, chainVars, setupVars>>

IsCopyTrade(r) == r.op = "copyTrade"

DrainedAlways(keys) == TRUE
\* (2) no execution is in flight on these keys
Drained(keys) ==
    \A c \in DOMAIN calls :
        (InFlight(calls[c]) /\ IsCopyTrade(calls[c])) => calls[c].trade.key \notin keys

\* (2) -> (3): the in-flight executions on the held keys have drained; the
\* sweep takes every ledger entry
RedeemSweepStart ==
    /\ redeem.pc = "draining"
    /\ Drained(HeldKeys(holdings))
    /\ redeem' = [redeem EXCEPT !.pc = "sweeping", !.todo = HeldKeys(holdings)]
    /\ UNCHANGED <<pipeline, chainVars, setupVars>>

\* (3) one entry: the market is not resolved, or the redemption fails, or the
\* entry is redeemed and removed from the ledger
RedeemEntry ==
    /\ redeem.pc = "sweeping"
    /\ \E k \in redeem.todo, outcome \in {"notResolved", "failed", "redeemed"} :
         /\ holdings' = IF outcome = "redeemed"
                        THEN removeHoldings(holdings, k, getHoldings(holdings, k))
                        ELSE holdings
         /\ redeem' = [redeem EXCEPT !.todo = @ \ {k}, !.swept = @ \cup {k}]
    /\ UNCHANGED <<simulateTxDone, config, calls, started, signedOrders, simulated,
                   consoleError, chainVars, setupVars>>

\* (4) the sweep is over: resume
RedeemResume ==
    /\ redeem.pc = "sweeping"
    /\ redeem.todo = {}
    /\ redeem' = [redeem EXCEPT !.pc = "idle", !.paused = FALSE, !.swept = {}]
    /\ UNCHANGED <<pipeline, chainVars, setupVars>>

NextRedeem ==
    \/ Next
    \/ RedeemTick
    \/ RedeemSweepStart
    \/ RedeemEntry
    \/ RedeemResume

SpecRedeem == InitRedeem /\ [][NextRedeem]_vars

----------------------------------------------------------------------------
\* approveTokensAfterBuy invoked on its own

\* one invocation at a time on the full environments, or overlapping ones
EnvInputs(n) == IF n = 1 THEN Envs ELSE ConcurrentEnvs

InitChain ==
    /\ holdings = [k \in Keys |-> 0]
    /\ simulateTxDone = FALSE
    /\ calls = [c \in {1} |-> IdleCall]
    /\ config \in ConcurrentConfigs
    /\ started = 0
    /\ signedOrders = FALSE
    /\ simulated = <<>>
    /\ consoleError = OriginalHandler
    /\ redeem = RedeemDisabled
    /\ \E n \in Calls :
         /\ approvals = [a \in 1..n |-> IdleApproval]
         /\ env \in EnvInputs(n)
    /\ approved \in [Operators -> BOOLEAN]
    /\ approvalsStarted = 0
    /\ firstApproval = NoApproval
    /\ NoSetup

\* approveTokensAfterBuy up to the first probe of getWorkingProvider
ApproveStart(a) ==
    /\ a \in DOMAIN approvals
    /\ ApprovalFree(a)
    /\ \A b \in DOMAIN approvals : b < a => ~ApprovalFree(b)
    /\ approvalsStarted < MaxInvocations
    /\ approvalsStarted' = approvalsStarted + 1
    /\ \E f \in ProbeFates :
         approvals' = [approvals EXCEPT ![a] = approveTokensAfterBuyStart(f)]
    /\ UNCHANGED <<pipeline, redeem, setupVars, env, approved, firstApproval>>

NextChain ==
    \E a \in Calls :
        \/ ApproveStart(a)
        \/ ProbeReturn(a)
        \/ GetAddressReturn(a)
        \/ GetGasPriceReturn(a)
        \/ IsApprovedForAllReturn(a)
        \/ SetApprovalForAllReturn(a)
        \/ WaitReturn(a)

SpecChain == InitChain /\ [][NextChain]_vars

----------------------------------------------------------------------------
\* The order builder with the timers of the runtime: the abort signal of the
\* simulation fetch and the 7 s timer of each probe fire, so an await of
\* simulateTx and a probe in flight end.

\* one invocation of the order builder at a time, in an environment with two
\* RPC candidates
InitStall ==
    /\ holdings \in InitialHoldings
    /\ simulateTxDone = FALSE
    /\ calls = [c \in {1} |-> IdleCall]
    /\ config \in ConcurrentConfigs
    /\ started = 0
    /\ signedOrders = FALSE
    /\ simulated = <<>>
    /\ consoleError = OriginalHandler
    /\ redeem = RedeemDisabled
    /\ approvals = [a \in {1} |-> IdleApproval]
    /\ env \in ConcurrentEnvs
    /\ approved = [o \in Operators |-> FALSE]
    /\ approvalsStarted = 0
    /\ firstApproval = NoApproval
    /\ NoSetup

SpecStall ==
    /\ InitStall
    /\ [][Next]_vars
    /\ \A c \in Calls : WF_vars(SimulateTxReturn(c))
    /\ \A a \in Calls : WF_vars(ProbeReturn(a))

----------------------------------------------------------------------------
\* security/allowance: approveUSDCAllowance, the allowance setup at start-up

\* MaxUint256, the uint256 scaled to 4 bits
MaxUint256 == 15
\* allowance(owner, spender): none, a finite one, the maximum
Allowances == {0, 5, MaxUint256}

\* the operators of ConditionalTokens approveUSDCAllowance handles
CtfOperators == Operators \cup {"negRiskAdapter"}

\* the approvals in the order of the code: the token contract and the spender
\* (USDC) or operator (ConditionalTokens)
SetupBase ==
    <<[token |-> "usdc", spender |-> "conditionalTokens"],
      [token |-> "usdc", spender |-> "exchange"],
      [token |-> "ctf", spender |-> "exchange"]>>
SetupNegRisk ==
    <<[token |-> "usdc", spender |-> "negRiskAdapter"],
      [token |-> "usdc", spender |-> "negRiskExchange"],
      [token |-> "ctf", spender |-> "negRiskExchange"],
      [token |-> "ctf", spender |-> "negRiskAdapter"]>>
\* const negRisk = process.env.NEG_RISK === "true"; if (negRisk) { ... }
SetupSteps(negRisk) == IF negRisk THEN SetupBase \o SetupNegRisk ELSE SetupBase

\* environments of the setup: a supported chain with two RPC candidates
SetupEnvs ==
    [chainId : {80002}, rpcUrl : {UrlCustom}, rpcToken : {""}, negRisk : BOOLEAN,
     privateKey : BOOLEAN]

\* State of the approveUSDCAllowance invocation
IdleSetup ==
    [pc |-> "idle",
     run |-> 0,                 \* invocations so far
     candidates |-> <<>>, probes |-> <<>>, fate |-> "", errors |-> <<>>,
     rpcUrl |-> "",             \* getWorkingProvider, as in approveTokensAfterBuy
     address |-> FALSE,         \* address has been assigned
     step |-> 0,                \* the approval being handled
     reads |-> <<>>,            \* per approval read: was it at its target
     sent |-> {},               \* approvals a transaction was sent for
     confirmed |-> {},          \* approvals whose transaction tx.wait() confirmed
     result |-> "none",         \* "ok": returned; "threw"
     error |-> ""]

InitSetup ==
    /\ holdings = [k \in Keys |-> 0]
    /\ simulateTxDone = FALSE
    /\ calls = [c \in {1} |-> IdleCall]
    /\ config \in ConcurrentConfigs
    /\ started = 0
    /\ signedOrders = FALSE
    /\ simulated = <<>>
    /\ consoleError = OriginalHandler
    /\ redeem = RedeemDisabled
    /\ env \in SetupEnvs
    /\ approved \in [CtfOperators -> BOOLEAN]
    /\ approvals = <<>>
    /\ approvalsStarted = 0
    /\ firstApproval = NoApproval
    /\ allowance \in [Spenders -> Allowances]
    /\ setup = IdleSetup

\* the value on chain an approval step reads, and whether it is the target
OnChain(st) == IF st.token = "usdc" THEN allowance[st.spender] ELSE approved[st.spender]
AtTarget(st, value) == IF st.token = "usdc" THEN value = MaxUint256 ELSE value

needsTransactionWhenZero(st, value) ==
    IF st.token = "usdc" THEN value = 0 ELSE ~value
\* if (!allowance.eq(MaxUint256)) / if (!isApproved)
needsTransaction(st, value) ==
    IF st.token = "usdc" THEN ~(value = MaxUint256) ELSE ~value

\* approveUSDCAllowance up to the first probe of getWorkingProvider
SetupStart ==
    /\ setup.pc \in {"idle", "done"}
    /\ setup.run < MaxInvocations
    /\ LET r0    == [IdleSetup EXCEPT !.run = setup.run + 1]
           cands == getRpcCandidates(env.chainId, env)
       IN IF ~env.privateKey
          THEN setup' = ApprovalThrew(r0, ErrNoPrivateKey)
          ELSE \E f \in ProbeFates :
                 setup' = [r0 EXCEPT !.pc = "getWorkingProvider",
                                     !.candidates = cands.urls,
                                     !.probes = <<cands.urls[1]>>,
                                     !.fate = f]
    /\ UNCHANGED <<pipeline, redeem, chainVars, allowance>>

\* await getWorkingProvider(chainId): its error leaves through the catch
SetupProbeReturn ==
    /\ setup.pc = "getWorkingProvider"
    /\ raceOutcome(setup.fate) # "hang"
    /\ \E f \in ProbeFates : setup' = getWorkingProvider(setup, f)
    /\ UNCHANGED <<pipeline, redeem, chainVars, allowance>>

\* address = await wallet.getAddress()
SetupGetAddressReturn ==
    /\ setup.pc = "getAddress"
    /\ setup' = [setup EXCEPT !.pc = "getGasPrice", !.address = TRUE]
    /\ UNCHANGED <<pipeline, redeem, chainVars, allowance>>

\* await provider.getGasPrice(): a failure falls back to a fixed gas price;
\* then the allowance of the first spender is read
SetupGetGasPriceReturn ==
    /\ setup.pc = "getGasPrice"
    /\ \E ok \in BOOLEAN :
         setup' = [setup EXCEPT !.pc = "read", !.step = 1]
    /\ UNCHANGED <<pipeline, redeem, chainVars, allowance>>

\* after an approval is done: the next one, or the normal return
NextApproval(rec) ==
    IF rec.step < Len(SetupSteps(env.negRisk))
    THEN [rec EXCEPT !.pc = "read", !.step = @ + 1]
    ELSE [rec EXCEPT !.pc = "done", !.result = "ok"]

\* await usdcContract.allowance(address, spender) /
\* await ctfContract.isApprovedForAll(address, operator)
SetupReadReturn ==
    /\ setup.pc = "read"
    /\ \/ setup' = ApprovalThrew(setup, ErrNet)
       \/ LET st    == SetupSteps(env.negRisk)[setup.step]
              value == OnChain(st)
              r1    == [setup EXCEPT !.reads = Append(@, AtTarget(st, value))]
          IN setup' = IF needsTransaction(st, value) THEN [r1 EXCEPT !.pc = "send"]
                      ELSE NextApproval(r1)
    /\ UNCHANGED <<pipeline, redeem, chainVars, allowance>>

\* await usdcContract.approve(spender, MaxUint256, gasOptions) /
\* await ctfContract.setApprovalForAll(operator, true, gasOptions): the
\* transaction is sent, or the call throws (INSUFFICIENT_FUNDS is rewritten)
SetupSendReturn ==
    /\ setup.pc = "send"
    /\ \E out \in {"sent", "insufficientFunds", "error"} :
         setup' = IF out = "sent"
                  THEN [setup EXCEPT !.pc = "wait", !.sent = @ \cup {setup.step}]
                  ELSE IF out = "insufficientFunds"
                  THEN ApprovalThrew(setup, ErrInsufficientFunds)
                  ELSE ApprovalThrew(setup, ErrNet)
    /\ UNCHANGED <<pipeline, redeem, chainVars, allowance>>

\* await tx.wait(): the transaction is mined and the allowance or approval is
\* at its target, or it failed
SetupWaitReturn ==
    /\ setup.pc = "wait"
    /\ \/ /\ setup' = ApprovalThrew(setup, ErrTxFailed)
          /\ UNCHANGED <<allowance, approved>>
       \/ LET st == SetupSteps(env.negRisk)[setup.step]
          IN /\ setup' = NextApproval([setup EXCEPT !.confirmed = @ \cup {setup.step}])
             /\ IF st.token = "usdc"
                THEN /\ allowance' = [allowance EXCEPT ![st.spender] = MaxUint256]
                     /\ UNCHANGED approved
                ELSE /\ approved' = [approved EXCEPT ![st.spender] = TRUE]
                     /\ UNCHANGED allowance
    /\ UNCHANGED <<pipeline, redeem, env, approvals, approvalsStarted, firstApproval>>

NextSetup ==
    \/ SetupStart
    \/ SetupProbeReturn
    \/ SetupGetAddressReturn
    \/ SetupGetGasPriceReturn
    \/ SetupReadReturn
    \/ SetupSendReturn
    \/ SetupWaitReturn

SpecSetup == InitSetup /\ [][NextSetup]_vars

----------------------------------------------------------------------------
\* Properties

IsBuy(r) == IsCopyTrade(r) /\ ~IsSell(r.trade)
IsSellCall(r) == IsCopyTrade(r) /\ IsSell(r.trade)
Returned(r) == IsCopyTrade(r) /\ r.pc = "done"

\* C1: no short-selling.  A SELL that read a ledger quantity of 0 (or less)
\* for its key has returned without creating or submitting an order and
\* without mutating the ledger.
C1_NoShortSelling ==
    \A c \in DOMAIN calls :
        LET r == calls[c]
        IN (IsSellCall(r) /\ r.atStart[r.trade.key] <= 0) =>
              /\ Returned(r)
              /\ r.result = "failure"
              /\ r.created = 0
              /\ r.posted = 0
              /\ r.wrote = 0

C1_Witness ==
    \E c \in DOMAIN calls :
        /\ IsSellCall(calls[c])
        /\ calls[c].holdingsAmount = 0
        /\ Returned(calls[c])
        /\ calls[c].error = "No holdings available to sell"

\* between its ledger read and the venue's answer, with its order submitted
SellPending(r) == IsSellCall(r) /\ r.pc = "postOrder" /\ r.posted = 1

\* C2: no double-spending under concurrency.  The SELL amounts submitted by
\* overlapping calls against the same ledger entry, none of them settled yet,
\* never add up to more than the entry holds.
C2_NoDoubleSpend ==
    \A c1 \in DOMAIN calls, c2 \in DOMAIN calls :
        (/\ c1 # c2
         /\ SellPending(calls[c1])
         /\ SellPending(calls[c2])
         /\ calls[c1].trade.key = calls[c2].trade.key)
        => calls[c1].amount + calls[c2].amount <= holdings[calls[c1].trade.key]

\* the success criterion as the claim states it: an order id and a fill status
StrictCriterion(r) ==
    r.present /\ r.respOrderID # "" /\ r.status \in FillStatuses

\* the success criterion with a missing status let through
LenientCriterion(r) ==
    r.present /\ r.respOrderID # "" /\ (r.status = "" \/ r.status \in FillStatuses)

\* C3 as stated: copyTrade returns success exactly when the venue response
\* exists, carries an order id and carries one of the three fill statuses.
C3_SuccessNeedsFillStatus ==
    \A c \in DOMAIN calls :
        Returned(calls[c]) => (calls[c].result = "success" <=> StrictCriterion(calls[c]))

\* C3: fill success criterion, amended.  copyTrade returns success exactly when
\* the venue response exists, carries a non-empty order id, and its status, when
\* it carries one, is FILLED, PARTIALLY_FILLED or MATCHED; a response with an
\* order id and no status counts as a fill.
C3_SuccessCriterion ==
    \A c \in DOMAIN calls :
        Returned(calls[c]) => (calls[c].result = "success" <=> LenientCriterion(calls[c]))

C3_Witness ==
    \E c \in DOMAIN calls :
        /\ Returned(calls[c])
        /\ calls[c].result = "success"
        /\ calls[c].respOrderID = "ord1"
        /\ calls[c].status = ""

\* C4: a failure leaves the ledger untouched.  A call that returned a failure
\* made no ledger mutation (with one call at a time, the ledger is the one the
\* call started on), and after a venue rejection the error is the classified
\* failure string of the response's status.
C4_FailureLeavesLedger ==
    \A c \in DOMAIN calls :
        LET r == calls[c]
        IN (Returned(r) /\ r.result = "failure") =>
              /\ r.wrote = 0
              /\ Sequential => holdings = r.atStart
              /\ r.resolved =>
                    r.error = IF r.status = "403"
                              THEN describeOrderFailure("403")
                              ELSE IF r.status \in {"401", "429"}
                              THEN describeOrderFailure(r.status)
                              ELSE "Order failed (status: "
                                   \o (IF r.status = "" THEN "unknown" ELSE r.status)
                                   \o ")"

C4_Witness ==
    \E c \in DOMAIN calls :
        /\ Returned(calls[c])
        /\ calls[c].result = "failure"
        /\ calls[c].resolved
        /\ calls[c].status = "REJECTED"
        /\ calls[c].respOrderID = ""
        /\ calls[c].error = "Order failed (status: REJECTED)"
        /\ calls[c].atStart[calls[c].trade.key] = 8

\* C5: sell-all sizing.  Every order a SELL creates is for exactly the positive
\* quantity the ledger held for the key when the call read it.
C5_SellAll ==
    \A c \in DOMAIN calls :
        LET r == calls[c]
        IN (IsSellCall(r) /\ r.created >= 1) =>
              /\ r.atStart[r.trade.key] > 0
              /\ r.amount = r.atStart[r.trade.key]

C5_Witness ==
    \E c \in DOMAIN calls :
        /\ IsSellCall(calls[c])
        /\ calls[c].posted = 1
        /\ calls[c].amount = 20
        /\ calls[c].trade.size = 8

\* a SELL that returned success
SellFilled(r) == IsSellCall(r) /\ Returned(r) /\ r.result = "success"

\* C6: SELL fill accounting.  On a successful SELL the quantity handed to the
\* ledger removal is the venue's makingAmount when the response carries one and
\* the requested amount otherwise, and the entry drops by it (to 0 when the
\* whole entry was requested and no makingAmount came back); a reported
\* quantity that is not positive leaves the ledger alone and logs a warning.
C6_SellFillAccounting ==
    \A c \in DOMAIN calls :
        LET r == calls[c]
            removed(q) == /\ r.wrote = 1
                          /\ r.qty = q
                          /\ r.log = "removed"
                          /\ r.before >= q => r.after = r.before - q
        IN SellFilled(r) =>
              /\ r.fill = <<>> => removed(r.amount)
              /\ (r.fill = <<>> /\ r.before = r.amount) => r.after = 0
              /\ r.fill = <<"8">> => removed(8)
              /\ r.fill = <<"2", "0">> => removed(20)
              /\ r.fill \in {<<"0">>, <<"-", "4">>, <<"x">>} =>
                    (r.wrote = 0 /\ r.log = "warn: no tokens were sold")
              /\ r.wrote = 0 => (Sequential => holdings = r.atStart)

C6_Witness ==
    \E c \in DOMAIN calls :
        /\ SellFilled(calls[c])
        /\ calls[c].fill = <<>>
        /\ calls[c].amount = 8
        /\ calls[c].before = 8
        /\ calls[c].after = 0
        /\ holdings[calls[c].trade.key] = 0

\* C7: ledger non-negativity.  No ledger entry is ever negative, and a SELL's
\* removal takes the executed quantity off the entry, stopping at 0 when the
\* venue reports more than the entry holds.
C7_LedgerNonNegative ==
    /\ \A k \in Keys : holdings[k] >= 0
    /\ \A c \in DOMAIN calls :
          LET r == calls[c]
          IN (IsSellCall(r) /\ r.wrote = 1) =>
                /\ r.before >= 0
                /\ r.after = (IF r.qty > r.before THEN 0 ELSE r.before - r.qty)

C7_Witness ==
    \E c \in DOMAIN calls :
        /\ SellFilled(calls[c])
        /\ calls[c].wrote = 1
        /\ calls[c].qty > calls[c].before
        /\ calls[c].after = 0

\* a BUY whose order passed the success check
BuyFilled(r) ==
    IsBuy(r) /\ (r.pc = "approveTokensAfterBuy" \/ (Returned(r) /\ r.result = "success"))

\* C8: BUY fill accounting.  On a successful BUY the quantity added to the
\* entry of the trade's key is the venue's takingAmount when it is present and
\* positive; otherwise it is the submitted amount divided by the observed
\* price, and the addition is logged as estimated.
C8_BuyFillAccounting ==
    \A c \in DOMAIN calls :
        LET r == calls[c]
            added(q) == /\ r.wrote = 1
                        /\ r.qty = q
                        /\ r.after = r.before + q
                        /\ r.log = "added"
        IN BuyFilled(r) =>
              /\ r.fill = <<"8">> => added(8)
              /\ r.fill = <<"2", "0">> => added(20)
              /\ r.fill \in {<<>>, <<"0">>, <<"-", "4">>, <<"x">>} =>
                    /\ r.trade.price # 0
                    /\ r.wrote = 1
                    /\ r.qty * r.trade.price = r.amount * 4
                    /\ r.after = r.before + r.qty
                    /\ r.log = "warn: using estimated token amount"

C8_Witness ==
    \E c \in DOMAIN calls :
        /\ BuyFilled(calls[c])
        /\ calls[c].fill = <<>>
        /\ calls[c].trade.price = 2
        /\ calls[c].amount = 5
        /\ calls[c].qty = 10
        /\ calls[c].log = "warn: using estimated token amount"

\* C9: shrink, don't abort.  After the balance check of a BUY: a shortfall with
\* a positive balance submits exactly the available balance, a shortfall with
\* no balance returns a failure without an order, a sufficient balance leaves
\* the amount as built; no order asks for more than the available balance.
C9_ShrinkDontAbort ==
    \A c \in DOMAIN calls :
        LET r == calls[c]
        IN (IsBuy(r) /\ r.checked) =>
              /\ (r.available < r.intent /\ r.available > 0) =>
                    (r.created = 1 /\ r.amount = r.available)
              /\ (r.available < r.intent /\ r.available <= 0) =>
                    (r.created = 0 /\ r.posted = 0 /\ Returned(r) /\ r.result = "failure")
              /\ r.available >= r.intent => (r.created = 1 /\ r.amount = r.intent)
              /\ r.created = 1 => r.amount <= r.available

C9_Witness ==
    \E c \in DOMAIN calls :
        /\ IsBuy(calls[c])
        /\ calls[c].checked
        /\ calls[c].intent = 8
        /\ calls[c].available = 3
        /\ calls[c].amount = 3
        /\ calls[c].posted = 1

\* C10: cap precedence.  The amount a BUY is built with is size * price *
\* multiplier, capped at maxAmount when one is set, and no BUY order is
\* created above maxAmount, also after the balance shrink.
C10_CapPrecedence ==
    \A c \in DOMAIN calls :
        LET r == calls[c]
            product == (r.trade.size * r.trade.price * config.sizeMultiplier) \div 8
        IN (IsBuy(r) /\ r.intent # 0) =>
              /\ config.maxAmount = 0 => r.intent = product
              /\ config.maxAmount # 0 =>
                    r.intent = (IF product > config.maxAmount
                                THEN config.maxAmount ELSE product)
              /\ (config.maxAmount # 0 /\ r.created = 1) => r.amount <= config.maxAmount

C10_Witness ==
    \E c \in DOMAIN calls :
        /\ IsBuy(calls[c])
        /\ calls[c].trade.size = 16
        /\ calls[c].trade.price = 4
        /\ config.sizeMultiplier = 2
        /\ config.maxAmount = 5
        /\ calls[c].intent = 5
        /\ calls[c].posted = 1
        /\ calls[c].amount = 5

\* C11: simulate at most once.  Over every interleaving of copyTrade,
\* placeMarketBuy and placeMarketSell, simulateTx is called at most once, and
\* only for the first order that was signed; an order signed later goes to
\* postOrder without a simulation, whether the first simulation resolved
\* true, resolved false or is still in flight.
C11_SimulateAtMostOnce ==
    /\ Len(simulated) <= 1
    /\ \A i \in 1..Len(simulated) : simulated[i] = "first"
    /\ \A c \in DOMAIN calls :
          /\ calls[c].pc = "simulateTx" => calls[c].signed = "first"
          /\ calls[c].simulation # "" => calls[c].signed = "first"
          /\ calls[c].signed = "later" =>
                (calls[c].posted = 1 /\ calls[c].simulation = "")

\* a second order is submitted while the simulation of the first is in flight
C11_Witness ==
    /\ simulated = <<"first">>
    /\ \E c1 \in DOMAIN calls, c2 \in DOMAIN calls :
          /\ calls[c1].pc = "simulateTx"
          /\ calls[c1].op = "placeMarketBuy"
          /\ calls[c2].op = "copyTrade"
          /\ calls[c2].signed = "later"
          /\ calls[c2].posted = 1
          /\ calls[c2].simulation = ""

\* C12: simulation never gates submission.  Every order createMarketOrder
\* signed is handed to postOrder: a signed order is either still awaiting
\* simulateTx or has been submitted, whatever the simulation gave (true,
\* false after a non-OK answer, a network error or the timeout, or an
\* exception while the simulation was prepared).
C12_SimulationNeverGates ==
    \A c \in DOMAIN calls :
        LET r == calls[c]
        IN /\ r.signed # "" => (r.posted = 1 \/ (r.pc = "simulateTx" /\ r.posted = 0))
           /\ r.simulation \in {"true", "false", "threw"} => r.posted = 1

\* an order whose simulation resolved false was submitted and filled
C12_Witness ==
    \E c \in DOMAIN calls :
        /\ calls[c].simulation = "false"
        /\ calls[c].posted = 1
        /\ calls[c].resolved
        /\ calls[c].result = "success"

\* C13: an approval failure does not undo a buy.  When approveTokensAfterBuy
\* throws after a filled BUY, the quantity added to the ledger stays (the call
\* made its one ledger write and, with one call at a time, the entry still
\* holds it) and copyTrade returns success with the venue's order id.
C13_ApprovalFailureKeepsBuy ==
    \A c \in DOMAIN calls :
        LET r == calls[c]
        IN (IsBuy(r) /\ r.approval = "threw") =>
              /\ Returned(r)
              /\ r.result = "success"
              /\ r.orderID = r.respOrderID
              /\ r.orderID # ""
              /\ r.wrote = 1
              /\ r.after = r.before + r.qty
              /\ Sequential => holdings[r.trade.key] = r.after

C13_Witness ==
    \E c \in DOMAIN calls :
        /\ IsBuy(calls[c])
        /\ calls[c].approval = "threw"
        /\ calls[c].result = "success"
        /\ calls[c].orderID = "ord1"
        /\ calls[c].qty = 8
        /\ holdings[calls[c].trade.key] = calls[c].atStart[calls[c].trade.key] + 8

\* C14: no automatic retry.  One invocation of copyTrade, placeMarketBuy or
\* placeMarketSell creates at most one order and calls postOrder at most once,
\* also when the submission failed with a balance or allowance error and the
\* catch block refreshed the allowance afterwards.
C14_NoAutomaticRetry ==
    \A c \in DOMAIN calls :
        /\ calls[c].created <= 1
        /\ calls[c].posted <= 1
        /\ calls[c].posted <= calls[c].created
        /\ calls[c].refreshed => (calls[c].pc = "done" /\ calls[c].result = "failure")

\* postOrder threw the balance error, the catch refreshed the allowance, and
\* the call returned with its single submission
C14_Witness ==
    \E c \in DOMAIN calls :
        /\ calls[c].op = "copyTrade"
        /\ calls[c].pc = "done"
        /\ calls[c].signed # ""
        /\ calls[c].posted = 1
        /\ ~calls[c].resolved
        /\ calls[c].error = ErrBalance
        /\ calls[c].refreshed

\* the venue answered the order, and the answer does not meet the success
\* criterion
Rejected(r) == Returned(r) /\ r.resolved /\ ~LenientCriterion(r)

\* C15: a venue rejection is a value, not an exception.  When postOrder
\* resolves with a response that does not meet the success criterion,
\* copyTrade returns success = false with a non-empty error; it does not throw.
C15_RejectionIsAValue ==
    \A c \in DOMAIN calls :
        Rejected(calls[c]) =>
            /\ calls[c].result = "failure"
            /\ calls[c].error # ""
            /\ calls[c].orderID = ""

C15_Witness ==
    \E c \in DOMAIN calls :
        /\ Rejected(calls[c])
        /\ calls[c].present
        /\ calls[c].respOrderID = ""
        /\ calls[c].status = ""
        /\ calls[c].error = "Order failed (status: unknown)"

\* createMarketOrder or postOrder threw in this copyTrade call
SigningThrew(r) == Returned(r) /\ r.created = 1 /\ r.signed = ""
SubmissionThrew(r) == Returned(r) /\ r.posted = 1 /\ ~r.resolved

\* C16 as stated: an error thrown by createMarketOrder or postOrder leaves
\* copyTrade as an exception.
C16_ErrorsPropagate ==
    \A c \in DOMAIN calls :
        (SigningThrew(calls[c]) \/ SubmissionThrew(calls[c])) => calls[c].result = "threw"

\* C16: unexpected errors, amended.  An error thrown by createMarketOrder or
\* postOrder leaves createSimulateAndPost (a geoblock message rewritten to the
\* region error) and is caught by copyTrade, which returns success = false with
\* the error's message; copyTrade itself never ends with an exception.
C16_ErrorsReturned ==
    \A c \in DOMAIN calls :
        LET r == calls[c]
        IN /\ IsCopyTrade(r) => r.result # "threw"
           /\ (SigningThrew(r) \/ SubmissionThrew(r)) =>
                 /\ r.result = "failure"
                 /\ r.error \in {ErrBalance, ErrNet, ErrGeo, ErrGeoRewritten}
                 /\ r.error = ErrGeo => SigningThrew(r)
                 /\ r.wrote = 0

C16_Witness ==
    \E c \in DOMAIN calls :
        /\ SubmissionThrew(calls[c])
        /\ calls[c].result = "failure"
        /\ calls[c].error = ErrNet

\* the keys the running sweep reads or removes
SweepKeys == IF redeem.pc = "sweeping" THEN redeem.todo \cup redeem.swept ELSE {}

\* C17: redemption exclusion.  No copyTrade execution is in flight on a key
\* while a redemption sweep touches that key; in particular no sweep reads or
\* removes the entry of a key between the submission of a BUY on it and the
\* BUY's ledger write.
C17_RedemptionExclusion ==
    \A c \in DOMAIN calls :
        LET r == calls[c]
        IN (IsCopyTrade(r) /\ InFlight(r)) => r.trade.key \notin SweepKeys

\* a BUY is submitted and not yet written while the sweep has redeemed the
\* entry of another key
C17_Witness ==
    \E c \in DOMAIN calls :
        /\ IsBuy(calls[c])
        /\ calls[c].pc = "postOrder"
        /\ redeem.pc = "sweeping"
        /\ redeem.swept # {}
        /\ calls[c].trade.key \notin redeem.swept
        /\ \E k \in redeem.swept : calls[c].atStart[k] > 0 /\ holdings[k] = 0

IsPrefix(p, q) == Len(p) <= Len(q) /\ \A i \in 1..Len(p) : p[i] = q[i]
NoDuplicates(q) == \A i \in 1..Len(q), j \in 1..Len(q) : i # j => q[i] # q[j]

\* C19: ordered RPC fallback.  getWorkingProvider probes the candidates in
\* list order (RPC_URL first when it is set), each at most once and one at a
\* time, going to the next one only after the probe in flight failed or
\* timed out; it returns the first candidate whose probe succeeded and probes
\* none after it; it throws the error that lists the attempts exactly when
\* every candidate failed, and the list has every candidate.
C19_OrderedFallback ==
    \A a \in DOMAIN approvals :
        LET r == approvals[a]
        IN /\ IsPrefix(r.probes, r.candidates)
           /\ NoDuplicates(r.candidates)
           /\ (env.rpcUrl # "" /\ r.candidates # <<>>) => r.candidates[1] = env.rpcUrl
           /\ \A i \in 1..Len(r.errors) :
                 /\ r.errors[i][1] = r.candidates[i]
                 /\ r.errors[i][2] \in {"error", "timeout"}
           /\ r.pc = "getWorkingProvider" => Len(r.errors) = Len(r.probes) - 1
           /\ r.rpcUrl # "" =>
                 /\ r.rpcUrl = r.probes[Len(r.probes)]
                 /\ Len(r.errors) = Len(r.probes) - 1
           /\ r.error = ErrNoRpc <=>
                 (r.candidates # <<>> /\ Len(r.errors) = Len(r.candidates))
           /\ r.error = ErrNoRpc => (r.probes = r.candidates /\ r.rpcUrl = "")

\* RPC_URL names a public endpoint of the list: it is probed first and only
\* once; it timed out, the next one failed, the third one is returned
C19_Witness ==
    \E a \in DOMAIN approvals :
        /\ env.chainId = 137
        /\ env.rpcUrl = "https://polygon.llamarpc.com"
        /\ env.rpcToken = ""
        /\ Len(approvals[a].candidates) = 4
        /\ approvals[a].errors = <<<<"https://polygon.llamarpc.com", "timeout">>,
                                   <<"https://polygon-rpc.com", "error">>>>
        /\ approvals[a].rpcUrl = "https://rpc.ankr.com/polygon"
        /\ approvals[a].result = "ok"

\* C20: idempotent approval.  approveTokensAfterBuy sends a setApprovalForAll
\* transaction for an operator only after isApprovedForAll returned false for
\* it; an invocation started after one has returned normally sends no
\* transaction; and the approval state stays the one the first normal return
\* left, with every operator the invocation handles approved.
C20_IdempotentApproval ==
    /\ \A a \in DOMAIN approvals :
          LET r == approvals[a]
          IN /\ \A o \in r.sent : r.reads[o] = "false"
             /\ (r.pc = "setApprovalForAll" \/ r.pc = "wait") => r.reads[r.operator] = "false"
             /\ r.later => r.sent = {}
             /\ (r.later /\ r.pc \notin {"idle", "done"}) =>
                   r.pc \notin {"setApprovalForAll", "wait"}
    /\ firstApproval.done =>
          /\ approved = firstApproval.approved
          /\ approved["exchange"]
          /\ env.negRisk => approved["negRiskExchange"]

\* an invocation approved both operators; the next one read both as approved,
\* sent nothing and returned
C20_Witness ==
    \E a \in DOMAIN approvals :
        /\ env.negRisk
        /\ firstApproval.done
        /\ approvalsStarted = 2
        /\ approvals[a].later
        /\ approvals[a].result = "ok"
        /\ approvals[a].reads = [o \in Operators |-> "true"]
        /\ approvals[a].sent = {}
        /\ firstApproval.sent = Operators

\* C18: bounded stalls.  Also when the simulation endpoint or an RPC endpoint
\* never answers: a call awaiting simulateTx goes on to submit its order, and
\* a getWorkingProvider that is probing ends, with a provider or with the
\* error thrown after the last candidate.
C18_BoundedStalls ==
    /\ \A c \in Calls :
          (c \in DOMAIN calls /\ calls[c].pc = "simulateTx")
             ~> (c \in DOMAIN calls /\ calls[c].posted = 1)
    /\ \A a \in Calls :
          (a \in DOMAIN approvals /\ approvals[a].pc = "getWorkingProvider")
             ~> (a \in DOMAIN approvals
                   /\ (approvals[a].rpcUrl # "" \/ approvals[a].error = ErrNoRpc))

\* the simulation endpoint did not answer and the order was submitted after
\* the abort; both RPC endpoints timed out and getWorkingProvider threw
C18_Witness ==
    /\ \E c \in DOMAIN calls :
          /\ calls[c].simulation = "false"
          /\ calls[c].posted = 1
    /\ \E a \in DOMAIN approvals :
          /\ Len(approvals[a].errors) = 2
          /\ \A i \in 1..2 : approvals[a].errors[i][2] = "timeout"
          /\ approvals[a].error = ErrNoRpc

MsgRegion == "Incorrect region - Polymarket blocks trading from this server's location. Use a server in an allowed region or route traffic through a VPN/proxy."
MsgAuth == "Authentication failed - check your API credentials."
MsgRateLimit == "Rate limited - too many requests, slow down."
Causes == {"region", "authentication", "rateLimit", "generic"}

\* the causes a returned error message states
CausesOf(error, status) ==
    {cause \in Causes :
        \/ cause = "region" /\ error \in {MsgRegion, ErrGeoRewritten}
        \/ cause = "authentication" /\ error = MsgAuth
        \/ cause = "rateLimit" /\ error = MsgRateLimit
        \/ cause = "generic" /\ error = "Order failed (status: " \o status \o ")"}

\* C21: rejection taxonomy.  The error of a rejected order states exactly one
\* cause: the region message for status 403, the authentication message for
\* 401, the rate-limit message for 429, and for every other status the generic
\* message that names it, "unknown" when the response has no status; a
\* postOrder exception whose message is the venue's trading-restriction
\* (geoblock) message is returned as the region error.
C21_RejectionTaxonomy ==
    \A c \in DOMAIN calls :
        LET r == calls[c]
        IN /\ Rejected(r) =>
                /\ r.status = "403" => CausesOf(r.error, r.status) = {"region"}
                /\ r.status = "401" => CausesOf(r.error, r.status) = {"authentication"}
                /\ r.status = "429" => CausesOf(r.error, r.status) = {"rateLimit"}
                /\ r.status \notin {"403", "401", "429", ""} =>
                      CausesOf(r.error, r.status) = {"generic"}
                /\ r.status = "" => CausesOf(r.error, "unknown") = {"generic"}
           /\ (r.pc = "done" /\ r.postError = ErrGeo) =>
                /\ r.result = "failure"
                /\ r.error = ErrGeoRewritten
                /\ CausesOf(r.error, r.status) = {"region"}

\* a response with an order id and status 429 was returned as the rate-limit
\* cause
C21_Witness ==
    \E c \in DOMAIN calls :
        /\ Rejected(calls[c])
        /\ calls[c].status = "429"
        /\ calls[c].respOrderID = "ord1"
        /\ calls[c].error = MsgRateLimit

\* a SELL that found no holdings for its key and returned
Skipped(r) == IsSellCall(r) /\ Returned(r) /\ r.created = 0 /\ r.holdingsAmount <= 0

\* C22: a skip is not an error.  The result of a SELL that found a ledger
\* quantity of 0 carries no failure outcome: its success flag is not false and
\* it has no error.
C22_SkipIsNotAnError ==
    \A c \in DOMAIN calls :
        Skipped(calls[c]) => (calls[c].result # "failure" /\ calls[c].error = "")

\* the texts a request body carries outside its signed order
KeyFields(body) == {body.key[f] : f \in DOMAIN body.key}

\* C23: private key confinement.  No body posted to the simulation endpoint
\* carries the wallet's private key, and what it carries next to the signed
\* order is public data of the wallet: the address.
C23_PrivateKeyConfined ==
    \A c \in DOMAIN calls :
        \A i \in 1..Len(calls[c].request) :
            LET body == calls[c].request[i]
            IN /\ calls[c].privateKey \notin KeyFields(body)
               /\ KeyFields(body) = {Address(calls[c].privateKey)}
               /\ body.transaction.signature # calls[c].privateKey

\* what a call has done by the time it wrote the ledger
WriteOrder(r) ==
    /\ r.wrote <= 1
    /\ r.wrote = 1 =>
          /\ IsCopyTrade(r)
          /\ r.posted = 1
          /\ r.resolved
          /\ LenientCriterion(r)
          /\ IsSell(r.trade) => r.after <= r.before
          /\ ~IsSell(r.trade) => r.after > r.before
    /\ (r.pc = "approveTokensAfterBuy" \/ r.approval # "") =>
          (IsBuy(r) /\ r.wrote = 1)

\* the approval of a call is under way only while the call awaits it
ApprovalAfterWrite(c) ==
    (c \in DOMAIN approvals /\ approvals[c].pc # "idle") =>
        (IsBuy(calls[c]) /\ calls[c].pc = "approveTokensAfterBuy" /\ calls[c].wrote = 1)

\* a step that changes the ledger is the write of one copyTrade call that
\* has its response from createSimulateAndPost, on the key of its trade
LedgerWriteStep ==
    holdings' # holdings =>
        \E c \in DOMAIN calls :
            LET r  == calls[c]
                r2 == calls'[c]
                k  == r.trade.key
            IN /\ IsCopyTrade(r)
               /\ r.pc = "createSimulateAndPost"
               /\ r.resolved
               /\ r.wrote = 0
               /\ r2.wrote = 1
               /\ r2.resolved
               /\ LenientCriterion(r2)
               /\ k \in Keys
               /\ \A j \in Keys \ {k} : holdings'[j] = holdings[j]
               /\ IsSell(r.trade) => holdings'[k] < holdings[k]
               /\ ~IsSell(r.trade) => holdings'[k] > holdings[k]
               /\ r2.pc = (IF IsSell(r.trade) THEN "done" ELSE "approveTokensAfterBuy")

\* C24: ledger write ordering.  A copyTrade execution mutates the ledger at
\* most once, on the key of its own trade, in the step that takes the response
\* postOrder returned through the success check, and only when it passed; a
\* BUY adds, a SELL removes; approveTokensAfterBuy is called, and runs, only
\* after the BUY's write.
C24_LedgerWriteOrdering ==
    /\ [](\A c \in DOMAIN calls : WriteOrder(calls[c]) /\ ApprovalAfterWrite(c))
    /\ [][LedgerWriteStep]_vars

\* a BUY wrote its key, left the other key alone, and awaits the approval,
\* which has sent its transaction
C24_Witness ==
    \E c \in DOMAIN calls :
        LET r == calls[c]
        IN /\ IsBuy(r)
           /\ r.pc = "approveTokensAfterBuy"
           /\ approvals[c].pc = "wait"
           /\ r.wrote = 1
           /\ r.status = "PARTIALLY_FILLED"
           /\ holdings[r.trade.key] = r.atStart[r.trade.key] + r.qty
           /\ \A j \in Keys \ {r.trade.key} : holdings[j] = r.atStart[j]

IsDirect(r) == r.op \in DirectOps

\* C25 as stated: placeMarketBuy and placeMarketSell return success = true
\* whenever postOrder returned without throwing.
C25_DirectSuccessOnReturn ==
    \A c \in DOMAIN calls :
        (IsDirect(calls[c]) /\ calls[c].pc = "done" /\ calls[c].resolved) =>
            calls[c].result = "success"

\* what a direct order has done, whatever the ledger holds
DirectFrame(r) ==
    /\ r.wrote = 0
    /\ r.created = 1
    /\ r.amount = r.trade.size
    /\ Sequential => holdings = r.atStart
    /\ r.pc = "done" =>
          /\ (r.resolved /\ r.present) =>
                (r.result = "success" /\ r.orderID = r.respOrderID)
          /\ (r.resolved /\ ~r.present) =>
                (r.result = "failure" /\ r.error = ErrNoResponse)
          /\ ~r.resolved => (r.result = "failure" /\ r.error # "")

\* a step of a direct order leaves the ledger as it is
DirectStep ==
    \A c \in DOMAIN calls :
        (calls'[c] # calls[c] /\ IsDirect(calls'[c])) => holdings' = holdings

\* C25: direct orders bypass the ledger, amended.  No step of placeMarketBuy
\* or placeMarketSell changes the ledger; the order is created for the
\* requested amount whatever the ledger holds; the call returns success = true
\* with the response's order id whenever postOrder resolves with a response
\* object, whatever its status, and success = false when postOrder resolves
\* with no response or when signing or submission throws.
C25_DirectOrdersBypassLedger ==
    /\ [](\A c \in DOMAIN calls : IsDirect(calls[c]) => DirectFrame(calls[c]))
    /\ [][DirectStep]_vars

\* placeMarketSell of 16 on a ledger that holds 8: the order was submitted
\* for 16, the venue rejected it, and the call returned success
C25_Witness ==
    \E c \in DOMAIN calls :
        LET r == calls[c]
        IN /\ r.op = "placeMarketSell"
           /\ r.atStart[<<"m1", "t1">>] = 8
           /\ r.amount = 16
           /\ r.posted = 1
           /\ r.status = "REJECTED"
           /\ r.respOrderID = ""
           /\ r.result = "success"
           /\ holdings = r.atStart

\* the approvals of this run, by their place in the order of the code
SetupIndex == 1..Len(SetupSteps(env.negRisk))
\* the allowance or approval of a step is at its target on chain
Granted(st) == AtTarget(st, OnChain(st))

\* C26: allowance setup postcondition.  When approveUSDCAllowance has returned
\* normally, USDC's allowance for ConditionalTokens and for the Exchange is
\* MaxUint256 and ConditionalTokens is approved for the Exchange, and with
\* NEG_RISK also the allowances for the NegRiskAdapter and the NegRiskExchange
\* and the approvals of ConditionalTokens for both; a transaction is sent for
\* an approval exactly when its read was not at the target; and an approval
\* is read only after every transaction sent before it was confirmed.
C26_AllowanceSetup ==
    /\ setup.pc # "idle" =>
          /\ setup.sent \subseteq 1..Len(setup.reads)
          /\ \A i \in setup.sent : ~setup.reads[i]
          /\ \A i \in 1..Len(setup.reads) :
                (~setup.reads[i] /\ i \notin setup.sent) =>
                   (i = setup.step /\ (setup.pc = "send" \/ setup.result = "threw"))
          /\ setup.confirmed \subseteq setup.sent
          /\ \A i \in setup.sent \ setup.confirmed :
                (i = setup.step /\ (setup.pc = "wait" \/ setup.result = "threw"))
          /\ \A i \in 1..Len(setup.reads) :
                i < setup.step => Granted(SetupSteps(env.negRisk)[i])
    /\ setup.result = "ok" =>
          /\ Len(setup.reads) = Len(SetupSteps(env.negRisk))
          /\ allowance["conditionalTokens"] = MaxUint256
          /\ allowance["exchange"] = MaxUint256
          /\ approved["exchange"]
          /\ env.negRisk =>
                /\ allowance["negRiskAdapter"] = MaxUint256
                /\ allowance["negRiskExchange"] = MaxUint256
                /\ approved["negRiskExchange"]
                /\ approved["negRiskAdapter"]

\* with NEG_RISK: the allowance for the Exchange was finite, not the maximum,
\* and the NegRiskAdapter was approved already; the run sent transactions for
\* the first and for others but not for the last, and returned
C26_Witness ==
    /\ env.negRisk
    /\ setup.result = "ok"
    /\ setup.run = 1
    /\ Len(setup.reads) = 7
    /\ {1, 2} \subseteq setup.sent
    /\ 7 \notin setup.sent
    /\ setup.confirmed = setup.sent
    /\ \A sp \in Spenders : allowance[sp] = MaxUint256

\* a call is inside the try of createSimulateAndPost, awaiting postOrder
Submitting(r) == r.pc = "postOrder"

\* C27: error-handler restoration.  Whenever no submission is in flight,
\* console.error is the handler that was installed before the first
\* submission started.
C27_HandlerRestored ==
    (\A c \in DOMAIN calls : ~Submitting(calls[c])) => consoleError = OriginalHandler

====
